---- MODULE Spec2Model ----
(***************************************************************************)
(* Model of astrbot_plugin_WZL_NachonekoPlus (src/main.py): the            *)
(* ImageDownloader (fetch_image, get_all_images, cleanup_images) and the   *)
(* MyPlugin command handler (neko, _send_neko_image, terminate), together  *)
(* with the file system and the wall clock they act on.                    *)
(*                                                                         *)
(* The handler is an async generator: it can be suspended only at a yield, *)
(* so each action below is the code that runs between two yields.          *)
(***************************************************************************)
EXTENDS Integers, Sequences, FiniteSets, TLC

\* ---- bounds ------------------------------------------------------------
MaxInv  == 2      \* command invocations
MaxInst == 2      \* MyPlugin / ImageDownloader instances built in the process
MaxSec  == 0      \* wall-clock seconds 0..MaxSec
MaxUsec == 1      \* microseconds read within a second 0..MaxUsec

\* ---- program constants ---------------------------------------------------
SaveFolder == "imgs/downloaded_images"
UsecPerSec == 1000000

Inv   == 1..MaxInv
Times == [sec : 0..MaxSec, usec : 0..MaxUsec]

\* Content-Type header as the list of its ';'-separated segments; <<>> is a
\* response without the header (headers.get(..., '') gives '').
ContentTypes == { <<"image/jpeg">>, <<"image/png", "charset=binary">>,
                  <<"image/webp">>, <<"text/html">>, <<>> }
\* what requests.get meets: no response at all, an error page, or a 200 with
\* any of the content types
Responses ==
    {[http |-> "neterr", ct |-> <<>>], [http |-> "status500", ct |-> <<"text/html">>]}
    \cup [http : {"ok"}, ct : ContentTypes]
WriteOutcomes == {"ok", "writefail"}
SendOutcomes  == {"ok", "raise"}

\* 'image' in content_type : substring test over the whole header value
SegmentsWithImage == {"image/jpeg", "image/png", "image/gif", "image/webp"}
ContainsImage(ct) == \E n \in 1..Len(ct) : ct[n] \in SegmentsWithImage

\* _parse_extension : type_map.get(content_type.split(';')[0].strip(), 'jpg')
_parse_extension(ct) ==
    LET head == IF Len(ct) = 0 THEN "" ELSE ct[1]
    IN  CASE head = "image/jpeg" -> "jpg"
          [] head = "image/png"  -> "png"
          [] head = "image/gif"  -> "gif"
          [] OTHER               -> "jpg"

\* datetime.now().strftime("%Y%m%d%H%M%S%f") : fixed-width digits, so the
\* string is determined by (seconds, microseconds) and nothing else.  The
\* reading is the local wall clock: an input of each fetch, which nothing
\* orders against the reading of another fetch
Timestamp(t) == t.sec * UsecPerSec + t.usec

\* os.path.join(self.save_folder, f'image_{timestamp}.{ext}')
SavePath(t, ext) ==
    [dir |-> SaveFolder, prefix |-> "image_", ts |-> Timestamp(t), ext |-> ext]

NoPath      == [dir |-> "", prefix |-> "", ts |-> 0, ext |-> ""]
ForeignFile == [dir |-> SaveFolder, prefix |-> "notes", ts |-> 0, ext |-> "txt"]
ImagePaths  == { SavePath(t, e) : t \in Times, e \in {"jpg", "png", "gif"} }

image_extensions == {"jpg", "jpeg", "png", "gif", "webp"}

VARIABLES
    log_configured,  \* ImageDownloader._log_configured (class attribute)
    insts,           \* the plugin instances built so far
    dirExists,       \* the save folder exists
    files,           \* the files inside the save folder
    rootDl,          \* a 'downloaded_images' folder exists in the cwd
    keep_images,     \* the keep_images entry of the host's configuration
    inv,             \* the command invocations
    life,            \* per image path: absent/written/delivered/deleted
    okFetches,       \* successful fetches since the folder held no image
    lastCleanup      \* what the last cleanup_images call returned

vars == <<log_configured, insts, dirExists, files, rootDl, keep_images, inv, life,
          okFetches, lastCleanup>>

\* ---- ImageDownloader ------------------------------------------------------

\* __init__ + _configure_logger : self.logger is assigned only while the
\* class flag is still unset
ImageDownloader(configured) == [hasLogger |-> ~configured]

\* self.logger.<level>(...) : an instance without the attribute raises
LoggerCall(self) == IF self.hasLogger THEN "ok" ELSE "AttributeError"

\* the try body of fetch_image: what it leaves on disk and how it ends
\*   exc  : "" or the exception that left the body
\*   ret  : the value returned when exc = "" ("path" or "none")
\*   errs : entries written with self.logger.error
FetchBody(self, http, ct, wr, t, dir, fs) ==
    LET save_path == SavePath(t, _parse_extension(ct))
    IN  IF http = "neterr" \/ http = "status500"
        THEN [exc |-> "RequestException", ret |-> "none", path |-> NoPath,
              files |-> fs, errs |-> 0]
        ELSE IF ~ContainsImage(ct)
        THEN IF LoggerCall(self) = "ok"
             THEN [exc |-> "", ret |-> "none", path |-> NoPath,
                   files |-> fs, errs |-> 1]
             ELSE [exc |-> "AttributeError", ret |-> "none", path |-> NoPath,
                   files |-> fs, errs |-> 0]
        ELSE IF ~dir
        THEN [exc |-> "IOError", ret |-> "none", path |-> NoPath,
              files |-> fs, errs |-> 0]
        ELSE IF wr = "writefail"
        THEN [exc |-> "IOError", ret |-> "none", path |-> save_path,
              files |-> fs \cup {save_path}, errs |-> 0]
        ELSE IF LoggerCall(self) = "ok"
        THEN [exc |-> "", ret |-> "path", path |-> save_path,
              files |-> fs \cup {save_path}, errs |-> 0]
        ELSE [exc |-> "AttributeError", ret |-> "none", path |-> save_path,
              files |-> fs \cup {save_path}, errs |-> 0]

\* fetch_image : the body, then the except clauses, each of which logs with
\* self.logger.error and falls through to `return None`
\*   kind  : "path" | "none" | "raised"
\*   path  : the returned path (kind = "path")
\*   wrote : the path opened for writing, NoPath if none was
fetch_image(self, http, ct, wr, t, dir, fs) ==
    LET b == FetchBody(self, http, ct, wr, t, dir, fs)
    IN  IF b.exc = ""
        THEN [kind  |-> b.ret,
              path  |-> IF b.ret = "path" THEN b.path ELSE NoPath,
              wrote |-> b.path, files |-> b.files, errs |-> b.errs]
        ELSE IF LoggerCall(self) = "ok"
        THEN [kind |-> "none", path |-> NoPath, wrote |-> b.path,
              files |-> b.files, errs |-> b.errs + 1]
        ELSE [kind |-> "raised", path |-> NoPath, wrote |-> b.path,
              files |-> b.files, errs |-> b.errs]

\* get_all_images : [] when the folder is missing, else the entries whose
\* extension, lower-cased, is an image extension
get_all_images(dir, fs) ==
    IF ~dir THEN {} ELSE { f \in fs : f.ext \in image_extensions }

\* ---- replies handed to the host ------------------------------------------
Plain(text)  == [kind |-> text, path |-> NoPath]
ImageSend(p) == [kind |-> "image", path |-> p]
Ack           == Plain("ack")              \* "喵喵喵~"
FetchFailed   == Plain("fetch_failed")     \* "获取图片失败，请稍后再试。"
FileMissing   == Plain("file_missing")     \* "图片文件丢失，请稍后再试。"
SendFailed    == Plain("send_failed")      \* "发送图片失败: ..."
CleanupFailed == Plain("cleanup_failed")   \* "图片已发送，但清理失败。"
RequestError  == Plain("request_error")    \* "处理请求时发生错误: ..."

\* ---- bookkeeping over the run ----------------------------------------------
Images(fs) == { f \in fs : f \in ImagePaths }

\* invocations other than `actor` that are under way see the folder change
Touch(iv, actor, changed) ==
    [j \in Inv |-> IF changed /\ j # actor /\ iv[j].pc \in {"acked", "sent"}
                   THEN [iv[j] EXCEPT !.touched = TRUE] ELSE iv[j]]

\* the image files in `gone` have been removed from disk (a file whose write
\* broke off never became an image file: it stays "absent")
Deleted(lf, gone) ==
    [p \in ImagePaths |->
        IF p \in gone /\ lf[p] # "absent" THEN "deleted" ELSE lf[p]]

\* the count of successful fetches into an image-free folder survives a
\* deletion only if the deletion left the folder image-free again
AfterDeletion(fs) == IF Images(fs) = {} THEN 0 ELSE -1

IdleInvocation ==
    [pc |-> "idle", self |-> 0, http |-> "", ct |-> <<>>, ret |-> "uncalled",
     path |-> NoPath, wrote |-> NoPath, send |-> "", rm |-> "",
     replies |-> <<>>, touched |-> FALSE, dlErr |-> 0, hostErr |-> 0]

NoCleanup == [called |-> FALSE, n |-> 0, succ |-> 0, fail |-> 0,
              raised |-> FALSE, left |-> FALSE]

\* ---- MyPlugin ----------------------------------------------------------------

\* MyPlugin.__init__ : self.downloader = ImageDownloader(); the configuration
\* the host holds for the plugin is not read
MyPlugin(configured) ==
    [hasLogger |-> ImageDownloader(configured).hasLogger, live |-> TRUE]

Init ==
    /\ log_configured = TRUE
    /\ insts = <<MyPlugin(FALSE)>>
    /\ dirExists = TRUE
    /\ files = {ForeignFile}
    /\ rootDl = TRUE
    /\ keep_images \in BOOLEAN
    /\ inv = [i \in Inv |-> IdleInvocation]
    /\ life = [p \in ImagePaths |-> "absent"]
    /\ okFetches = 0
    /\ lastCleanup = NoCleanup

\* the host loads the plugin again in the same process
Construct ==
    /\ Len(insts) < MaxInst
    /\ insts' = Append(insts, MyPlugin(log_configured))
    /\ log_configured' = TRUE
    /\ dirExists' = TRUE                     \* os.makedirs(..., exist_ok=True)
    /\ inv' = Touch(inv, 0, ~dirExists)
    /\ UNCHANGED <<files, rootDl, keep_images, life, okFetches, lastCleanup>>

\* neko, up to its first yield
Neko(i) ==
    /\ inv[i].pc = "idle"
    /\ \A j \in Inv : j < i => inv[j].pc # "idle"
    /\ \E k \in 1..Len(insts) :
         /\ insts[k].live
         /\ inv' = [inv EXCEPT ![i].pc = "acked", ![i].self = k,
                               ![i].replies = <<Ack>>]
    /\ UNCHANGED <<log_configured, insts, dirExists, files, rootDl, keep_images, life,
                   okFetches, lastCleanup>>

\* _send_neko_image from its start to the yield it stops at
SendNekoImage(i) ==
    /\ inv[i].pc = "acked"
    /\ \E resp \in Responses, now \in Times,
          wr \in WriteOutcomes, send \in SendOutcomes :
         LET self == insts[inv[i].self]
             http == resp.http
             ct   == resp.ct
             r    == fetch_image(self, http, ct, wr, now, dirExists, files)
             base == [inv[i] EXCEPT !.http = http, !.ct = ct, !.ret = r.kind,
                                    !.path = r.path, !.wrote = r.wrote,
                                    !.dlErr = r.errs]
             out  ==
               IF r.kind = "raised"
               THEN [base EXCEPT !.pc = "done", !.hostErr = 1,
                                 !.replies = Append(@, RequestError)]
               ELSE IF r.kind = "none"
               THEN [base EXCEPT !.pc = "done",
                                 !.replies = Append(@, FetchFailed)]
               ELSE IF ~(dirExists /\ r.path \in r.files)
               THEN [base EXCEPT !.pc = "done", !.hostErr = 1,
                                 !.replies = Append(@, FileMissing)]
               ELSE IF send = "raise"
               THEN [base EXCEPT !.pc = "done", !.hostErr = 1, !.send = send,
                                 !.replies = Append(@, SendFailed)]
               ELSE [base EXCEPT !.pc = "sent", !.send = send,
                                 !.replies = Append(@, ImageSend(r.path))]
         IN  /\ files' = r.files
             /\ inv' = Touch([inv EXCEPT ![i] = out], i, r.wrote # NoPath)
             /\ life' = IF r.wrote = NoPath \/ r.kind = "none"
                        THEN life
                        ELSE [life EXCEPT ![r.wrote] =
                                IF out.pc = "sent" THEN "delivered" ELSE "written"]
             /\ okFetches' = IF r.wrote = NoPath THEN okFetches
                             ELSE IF r.kind = "path" /\ okFetches >= 0
                             THEN okFetches + 1 ELSE -1
    /\ UNCHANGED <<log_configured, insts, dirExists, rootDl, keep_images, lastCleanup>>

\* DeleteImage with the removal left out
DeleteImage_noRemove(i) ==
    /\ inv[i].pc = "sent"
    /\ inv' = [inv EXCEPT ![i].pc = "done", ![i].rm = "ok"]
    /\ UNCHANGED <<log_configured, insts, dirExists, files, rootDl, keep_images,
                   life, okFetches, lastCleanup>>

\* DeleteImage that swallows a failed removal without telling the user
DeleteImage_noNotice(i) ==
    /\ inv[i].pc = "sent"
    /\ LET p == inv[i].path
       IN  IF dirExists /\ p \in files
           THEN /\ files' = files \ {p}
                /\ inv' = Touch([inv EXCEPT ![i].pc = "done", ![i].rm = "ok"],
                                i, TRUE)
                /\ life' = Deleted(life, {p})
                /\ okFetches' = AfterDeletion(files')
           ELSE /\ inv' = [inv EXCEPT ![i].pc = "done", ![i].rm = "failed",
                                      ![i].hostErr = @ + 1]
                /\ UNCHANGED <<files, life, okFetches>>
    /\ UNCHANGED <<log_configured, insts, dirExists, rootDl, keep_images, lastCleanup>>

\* DeleteImage that keeps the file when keep_images is set
DeleteImage_archival(i) ==
    /\ inv[i].pc = "sent"
    /\ LET p == inv[i].path
       IN  IF keep_images
           THEN /\ inv' = [inv EXCEPT ![i].pc = "done"]
                /\ UNCHANGED <<files, life, okFetches>>
           ELSE IF dirExists /\ p \in files
           THEN /\ files' = files \ {p}
                /\ inv' = Touch([inv EXCEPT ![i].pc = "done", ![i].rm = "ok"],
                                i, TRUE)
                /\ life' = Deleted(life, {p})
                /\ okFetches' = AfterDeletion(files')
           ELSE /\ inv' = [inv EXCEPT ![i].pc = "done", ![i].rm = "failed",
                                      ![i].hostErr = @ + 1,
                                      ![i].replies = Append(@, CleanupFailed)]
                /\ UNCHANGED <<files, life, okFetches>>
    /\ UNCHANGED <<log_configured, insts, dirExists, rootDl, keep_images, lastCleanup>>

\* _send_neko_image after the image was yielded: os.remove(image_path)
DeleteImage(i) ==
    /\ inv[i].pc = "sent"
    /\ LET p == inv[i].path
       IN  IF dirExists /\ p \in files
           THEN /\ files' = files \ {p}
                /\ inv' = Touch([inv EXCEPT ![i].pc = "done", ![i].rm = "ok"],
                                i, TRUE)
                /\ life' = Deleted(life, {p})
                /\ okFetches' = AfterDeletion(files')
           ELSE /\ inv' = [inv EXCEPT ![i].pc = "done", ![i].rm = "failed",
                                      ![i].hostErr = @ + 1,
                                      ![i].replies = Append(@, CleanupFailed)]
                /\ UNCHANGED <<files, life, okFetches>>
    /\ UNCHANGED <<log_configured, insts, dirExists, rootDl, keep_images, lastCleanup>>

\* the orders in which os.listdir can hand out the entries of S
Listings(S) ==
    { o \in [1..Cardinality(S) -> S] :
        \A a, b \in 1..Cardinality(S) : a # b => o[a] # o[b] }

\* the loop of cleanup_images over the listing `todo`
RECURSIVE CleanupLoop(_, _, _, _, _)
CleanupLoop(self, todo, fs, succ, fail) ==
    IF Len(todo) = 0
    THEN [raised |-> FALSE, files |-> fs, succ |-> succ, fail |-> fail]
    ELSE LET image_path == Head(todo)
             removed    == image_path \in fs
         IN  IF LoggerCall(self) # "ok"
             THEN [raised |-> TRUE, files |-> fs \ {image_path},
                   succ |-> succ, fail |-> fail]
             ELSE IF removed
             THEN CleanupLoop(self, Tail(todo), fs \ {image_path}, succ + 1, fail)
             ELSE CleanupLoop(self, Tail(todo), fs, succ, fail + 1)

cleanup_images(self, listing, fs) == CleanupLoop(self, listing, fs, 0, 0)

\* a caller runs downloader.cleanup_images() on a loaded plugin
Cleanup(k) ==
    /\ k \in 1..Len(insts)
    /\ insts[k].live
    /\ \E listing \in Listings(get_all_images(dirExists, files)) :
         LET r == cleanup_images(insts[k], listing, files)
         IN  /\ files' = r.files
             /\ lastCleanup' = [called |-> TRUE, n |-> okFetches,
                                succ |-> r.succ, fail |-> r.fail,
                                raised |-> r.raised,
                                left |-> Images(r.files) # {}]
             /\ inv' = Touch(inv, 0, r.files # files)
             /\ life' = Deleted(life, Images(files) \ r.files)
             /\ okFetches' = IF r.files = files THEN okFetches
                             ELSE AfterDeletion(r.files)
    /\ UNCHANGED <<log_configured, insts, dirExists, rootDl, keep_images>>

\* terminate : rmtree of the save folder and of ./downloaded_images
Terminate(k) ==
    /\ k \in 1..Len(insts)
    /\ insts[k].live
    /\ insts' = [insts EXCEPT ![k].live = FALSE]
    /\ dirExists' = FALSE
    /\ files' = {}
    /\ rootDl' = FALSE
    /\ inv' = Touch(inv, 0, dirExists)
    /\ life' = Deleted(life, Images(files))
    /\ okFetches' = IF dirExists THEN 0 ELSE okFetches
    /\ UNCHANGED <<log_configured, keep_images, lastCleanup>>

Next ==
    \/ Construct
    \/ \E i \in Inv : Neko(i)
    \/ \E i \in Inv : SendNekoImage(i)
    \/ \E i \in Inv : DeleteImage(i)
    \/ \E k \in 1..MaxInst : Cleanup(k)
    \/ \E k \in 1..MaxInst : Terminate(k)

Spec == Init /\ [][Next]_vars

TypeOK ==
    /\ log_configured \in BOOLEAN
    /\ dirExists \in BOOLEAN
    /\ (~dirExists => files = {})
    /\ files \subseteq ImagePaths \cup {ForeignFile}
    /\ keep_images \in BOOLEAN
    /\ okFetches \in -1..MaxInv

\* ---- properties ----------------------------------------------------------------

Finishes(i) == inv[i].pc # "done" /\ inv'[i].pc = "done"

\* C1: when an invocation finishes whose fetch returned a path and whose send
\* succeeded, and nothing else changed the save folder while it ran, its
\* replies are the acknowledgment followed by exactly one image-send of a path
\* inside the save folder, and that file is not on disk.
C1_AckImageThenGone ==
    [][\A i \in Inv :
         (/\ Finishes(i)
          /\ inv'[i].ret = "path" /\ inv'[i].send = "ok" /\ ~inv'[i].touched)
         => /\ inv'[i].replies = <<Ack, ImageSend(inv'[i].path)>>
            /\ inv'[i].path.dir = SaveFolder
            /\ inv'[i].path \notin files']_vars

C1_Witness ==
    \E i \in Inv :
        /\ inv[i].pc = "done" /\ inv[i].ret = "path" /\ inv[i].send = "ok"
        /\ ~inv[i].touched /\ inv[i].rm = "ok"
        /\ inv[i].replies = <<Ack, ImageSend(inv[i].path)>>
        /\ inv[i].path \notin files

\* C2: a non-success status, or a Content-Type without 'image', makes
\* fetch_image return None without opening a file, and the handler replies
\* with the acknowledgment and the fetch-failed text only.
C2_BadResponseDegrades ==
    \A i \in Inv :
        (inv[i].http = "status500" \/ (inv[i].http = "ok" /\ ~ContainsImage(inv[i].ct)))
        => /\ inv[i].ret = "none"
           /\ inv[i].wrote = NoPath
           /\ inv[i].replies = <<Ack, FetchFailed>>

\* C3: on every instance fetch_image returns a path or None and never raises,
\* and a None was logged as an error.
C3_FetchNeverRaises ==
    \A i \in Inv :
        /\ inv[i].ret # "raised"
        /\ inv[i].ret = "none" => inv[i].dlErr >= 1

\* C4: two successful fetches are given two distinct paths.
C4_DistinctPaths ==
    \A i, j \in Inv :
        (i # j /\ inv[i].ret = "path" /\ inv[j].ret = "path")
        => inv[i].path # inv[j].path

\* C5: whenever an invocation goes on to fetch, the save folder exists.
C5_FolderExistsAtFetch ==
    [][\A i \in Inv :
         (inv[i].pc = "acked" /\ inv'[i].pc # "acked") => dirExists]_vars

\* C6: an image file only moves absent -> written -> delivered -> deleted (or
\* retained); written and delivered may fall in one step of the handler.
LegalMove(a, b) ==
    \/ a = b
    \/ a = "absent"    /\ b \in {"written", "delivered"}
    \/ a = "written"   /\ b = "delivered"
    \/ a = "delivered" /\ b \in {"deleted", "retained"}

C6_Lifecycle ==
    [][\A p \in ImagePaths : LegalMove(life[p], life'[p])]_vars

\* C7: when the removal of the sent file fails, the handler still finishes,
\* has logged exactly one error, and its replies are the acknowledgment, the
\* image-send and then the cleanup-failed notice.
C7_RemoveFailureIsSoft ==
    \A i \in Inv :
        inv[i].rm = "failed"
        => /\ inv[i].pc = "done"
           /\ inv[i].hostErr = 1
           /\ inv[i].replies =
                <<Ack, ImageSend(inv[i].path), CleanupFailed>>

C7_Witness ==
    \E i \in Inv :
        /\ inv[i].rm = "failed" /\ inv[i].pc = "done" /\ inv[i].hostErr = 1
        /\ inv[i].replies = <<Ack, ImageSend(inv[i].path), CleanupFailed>>

\* C8: after n successful fetches into a folder without images and with no
\* deletion since, cleanup_images returns (n, 0) and leaves no image.
C8_CleanupCounts ==
    (lastCleanup.called /\ lastCleanup.n >= 0)
    => /\ ~lastCleanup.raised
       /\ lastCleanup.succ = lastCleanup.n
       /\ lastCleanup.fail = 0
       /\ ~lastCleanup.left

C10_NoFileLeftBehind ==
    \A i \in Inv :
        inv[i].pc = "done" => (inv[i].wrote = NoPath \/ inv[i].wrote \notin files)

====
